---- MODULE Spec2Model ----
(***************************************************************************)
(* Range-cache engine of EmbyToAlist (src/components/cache.py).            *)
(*                                                                         *)
(* The model follows the coroutines of cache.py between their suspension   *)
(* points (every `await`): one action per stretch of code that runs        *)
(* without giving up the event loop.  The cache directory of a logical     *)
(* file is a set of file names; a file name is the record of the fields    *)
(* that f'cache_file_{start}_{end}' / f'...{end}.tag' put in the name and  *)
(* that file.split('_')[2:4] and file.endswith('.tag') read back.          *)
(***************************************************************************)
EXTENDS Integers, Sequences, FiniteSets, TLC

\* ---------------------------------------------------------------- bounds
\* concurrent write_cache_file callers
NumWriters == 2
\* size in bytes of the largest logical file
MaxSize == 3
\* write_cache_file calls made in one run
MaxCalls == 3
\* write_cache_file calls made in one run beside a reader
MaxReadCalls == 2

Writers == 1..NumWriters
\* (subdirname, dirname) pairs returned by get_hash_subdirectory_from_path
Keys == {"k1", "k2"}
\* request_info.file_info of the logical file behind key k (lines 73-74): its
\* size and its cache_file_size, the same in every request for that file.
\* k1 is longer than its head cache; k2 is a one-byte file that its head cache
\* covers whole.
FileSize(k) == IF k = "k1" THEN MaxSize ELSE 1
CacheFileSize(k) == IF k = "k1" THEN MaxSize - 1 ELSE 1
\* CacheStatus enum of main.py
CacheStatus == {"HIT", "PARTIAL", "HIT_TAIL", "MISS"}
\* asyncio.Lock instances that can be alive at once: one per caller
LockIds == 1..NumWriters
NoLock == 0

\* ------------------------------------------------------------ file names
\* f'cache_file_{start_point}_{end_point}'
CacheFileName(s, e) == [start |-> s, end |-> e, tag |-> FALSE]
\* f'{cache_file_name}.tag'
TagFileName(s, e) == [start |-> s, end |-> e, tag |-> TRUE]
\* file.endswith('.tag')
IsTag(file) == file.tag
\* file.startswith('cache_file_') and file.endswith('.tag') is False
IsCacheFile(file) == ~IsTag(file)
\* map(int, file.split('_')[2:4])
FileRange(file) == <<file.start, file.end>>

\* all orders in which os.listdir may return the entries of S
Listings(S) ==
    {q \in [1..Cardinality(S) -> S] : \A i, j \in 1..Cardinality(S) : q[i] = q[j] => i = j}

VARIABLES
    dir_exists,   \* dir_exists[k]: the cache directory of key k exists
    files,        \* files[k]: the entries of the cache directory of key k
    cache_locks,  \* the WeakValueDictionary: key -> lock instance (NoLock: no entry)
    locked,       \* locked[l]: asyncio.Lock._locked of instance l
    waiters,      \* waiters[l]: asyncio.Lock._waiters of instance l, FIFO
    pc,           \* pc[w]: where caller w stands in write_cache_file
    req,          \* req[w]: the request_info caller w was called with
    start_point,  \* locals of write_cache_file
    end_point,
    lock,         \* local `lock` of write_cache_file (NoLock: not bound)
    listing,      \* what is left of the for loop over os.listdir(...)
    ret,          \* outcome of the call once pc[w] = "done"
    fetched,      \* the call has issued client.get
    removed,      \* cache files the call deleted as superseded
    before,       \* directory entries when the call took the lock (line 104)
    probe,        \* last get_cache_status call and its result
    calls,        \* write_cache_file calls made so far
    range_hdr,    \* req_header['range'] of the upstream GET of the call (line 130)
    rd,           \* last read_cache_file call and what it returned
    gen           \* the read_file generator that call returned, as far as consumed

vars == <<dir_exists, files, cache_locks, locked, waiters, pc, req, start_point,
          end_point, lock, listing, ret, fetched, removed, before, probe, calls,
          range_hdr, rd, gen>>

fsvars == <<dir_exists, files>>
lockvars == <<cache_locks, locked, waiters>>
readvars == <<rd, gen>>

NoReq == [key |-> "k1", cache_status |-> "MISS", start_byte |-> 0]
NoProbe == [key |-> "none", start_byte |-> 0, result |-> FALSE]
\* end_point of read_file when the caller gives none (line 28)
NoEnd == -1
\* chunk_size of read_file when the caller gives none (line 29)
DefaultChunk == 1024 * 1024
NoFile == [start |-> 0, end |-> 0, tag |-> TRUE]
\* no read_cache_file call has been made
NoRead == [key |-> "none", cache_status |-> "MISS", start_byte |-> 0, end_byte |-> 0,
           result |-> "none", file |-> NoFile, start |-> 0, end |-> NoEnd]
\* no generator: read_file has not been called
NoGen == [state |-> "none", key |-> "none", file |-> NoFile, found |-> FALSE, n |-> 0,
          start |-> 0, end |-> NoEnd, chunk |-> 1, chunk0 |-> 1, pos |-> 0, out |-> <<>>]

\* the key of the directory caller w works on (line 78)
KeyOf(w) == req[w].key

\* pc values inside `async with lock`: from the creation of the tag file to
\* its removal
CriticalSection == {"tag", "list", "scan", "fetch", "open", "stream", "untag", "cleanup", "cleanup_tag"}

Init ==
    /\ dir_exists = [k \in Keys |-> FALSE]
    /\ files = [k \in Keys |-> {}]
    /\ cache_locks = [k \in Keys |-> NoLock]
    /\ locked = [l \in LockIds |-> FALSE]
    /\ waiters = [l \in LockIds |-> <<>>]
    /\ pc = [w \in Writers |-> "idle"]
    /\ req = [w \in Writers |-> NoReq]
    /\ start_point = [w \in Writers |-> 0]
    /\ end_point = [w \in Writers |-> 0]
    /\ lock = [w \in Writers |-> NoLock]
    /\ listing = [w \in Writers |-> <<>>]
    /\ ret = [w \in Writers |-> "pending"]
    /\ fetched = [w \in Writers |-> FALSE]
    /\ removed = [w \in Writers |-> {}]
    /\ before = [w \in Writers |-> {}]
    /\ probe = NoProbe
    /\ calls = 0
    /\ range_hdr = [w \in Writers |-> <<>>]
    /\ rd = NoRead
    /\ gen = NoGen


\* ------------------------------------------------------------- registry
\* a lock instance no caller references and the registry does not hold:
\* what asyncio.Lock() returns (line 21)
FreshLock ==
    CHOOSE l \in LockIds :
        /\ \A w \in Writers : lock[w] # l
        /\ \A k \in Keys : cache_locks[k] # l
        /\ \A m \in LockIds :
               (m < l) => ((\E w \in Writers : lock[w] = m) \/ (\E k \in Keys : cache_locks[k] = m))

\* get_cache_lock without the `key not in cache_locks` test
get_cache_lock_always_new(key) ==
    [lock |-> FreshLock, registry |-> [cache_locks EXCEPT ![key] = FreshLock]]

\* one lock for every directory: the registry is looked up under a fixed key
get_cache_lock_one_for_all(key) ==
    IF cache_locks["k1"] = NoLock
    THEN [lock |-> FreshLock, registry |-> [cache_locks EXCEPT !["k1"] = FreshLock]]
    ELSE [lock |-> cache_locks["k1"], registry |-> cache_locks]

\* get_cache_lock(subdirname, dirname): the instance returned and the registry
\* it leaves behind
get_cache_lock(key) ==
    IF cache_locks[key] = NoLock
    THEN [lock |-> FreshLock, registry |-> [cache_locks EXCEPT ![key] = FreshLock]]
    ELSE [lock |-> cache_locks[key], registry |-> cache_locks]

\* asyncio.Lock.acquire takes the lock at once however it stands
LockFree_ignore_holder(l) == TRUE

\* asyncio.Lock.acquire takes the lock at once only when it is not held and
\* nobody waits for it; otherwise the caller joins the FIFO of waiters
LockFree(l) == ~locked[l] /\ waiters[l] = <<>>

\* the WeakValueDictionary after caller w dropped its reference to instance l:
\* the entry goes with the last strong reference
Reclaim(reg, w, l) ==
    IF \E w2 \in Writers \ {w} : lock[w2] = l
    THEN reg
    ELSE [k \in Keys |-> IF reg[k] = l THEN NoLock ELSE reg[k]]

\* ------------------------------------------------------- range decisions
WriteEligible == {"HIT", "PARTIAL", "HIT_TAIL"}

\* the head cache starts at the requested offset instead of offset 0
TargetRange_from_start_byte(status, start_byte, cache_size, file_size) ==
    IF status = "HIT" \/ status = "PARTIAL"
    THEN <<start_byte, cache_size - 1>>
    ELSE <<start_byte, file_size - 1>>

\* lines 82-86: the (start_point, end_point) a write-eligible request caches
TargetRange(status, start_byte, cache_size, file_size) ==
    IF status = "HIT" \/ status = "PARTIAL"
    THEN <<0, cache_size - 1>>
    ELSE <<start_byte, file_size - 1>>

\* the refusal test accepts every status
Refused_never(status) == FALSE

\* line 87: the else branch that refuses the request
Refused(status) == status \notin WriteEligible

\* the containment test with strict comparisons: an equal range is not contained
AlreadyCached_strict(s, e, r) == s > r[1] /\ e < r[2]

\* line 114: an existing file's range r contains [s, e]
AlreadyCached(s, e, r) == s >= r[1] /\ e <= r[2]

\* the supersession test with strict comparisons
Supersedes_strict(s, e, r) == s < r[1] /\ e > r[2]

\* line 118: [s, e] contains an existing file's range r
Supersedes(s, e, r) == s <= r[1] /\ e >= r[2]

\* the probe skips the scan for tag files
get_cache_status_no_tag_check(k, b) ==
    /\ dir_exists[k]
    /\ \E f \in files[k] : FileRange(f)[1] <= b /\ b <= FileRange(f)[2]

\* get_cache_status(request_info), lines 189-210
get_cache_status(k, b) ==
    IF ~dir_exists[k] THEN FALSE
    ELSE IF \E f \in files[k] : IsTag(f) THEN FALSE
    ELSE \E f \in files[k] : FileRange(f)[1] <= b /\ b <= FileRange(f)[2]


\* ---------------------------------------------------------------- reader
Min(a, b) == IF a <= b THEN a ELSE b

\* the content of a file on disk is the sequence of its offsets: the byte at
\* on-disk offset i of cache_file_{s}_{e} is the byte s + i of the logical file.
\* f.read(size) at position pos of a file of length n
ReadAt(pos, size, n) ==
    IF Min(pos + size, n) <= pos THEN <<>>
    ELSE [i \in 1..(Min(pos + size, n) - pos) |-> pos + i - 1]

\* the remaining count without the + 1 for the inclusive end
Remaining_exclusive_end(end, pos) == end - pos

\* line 47: remaining = (end_point+1) - await f.tell()
Remaining(end, pos) == (end + 1) - pos

\* the number of bytes in cache_file_{start}_{end} once its write is complete
FullLength(file) == file.end - file.start + 1

\* the lengths aiofiles.open may find for `file` of directory k: the whole
\* range, any prefix of it while a writer streams into the file or has not yet
\* removed it after a broken stream, none when the file is not there
Lengths(k, file) ==
    IF k \notin Keys \/ file \notin files[k] THEN {}
    ELSE IF \E w \in Writers :
                /\ pc[w] \in {"stream", "cleanup"}
                /\ KeyOf(w) = k
                /\ file = CacheFileName(start_point[w], end_point[w])
         THEN 0..FullLength(file)
         ELSE {FullLength(file)}

\* lines 169-172: the index in the listing q of the first cache file whose
\* range contains start_byte, 0 when there is none
FirstMatch(q, start_byte) ==
    LET M == {i \in 1..Len(q) :
                 /\ IsCacheFile(q[i])
                 /\ FileRange(q[i])[1] <= start_byte /\ start_byte <= FileRange(q[i])[2]}
    IN  IF M = {} THEN 0 ELSE CHOOSE i \in M : \A j \in M : i <= j

\* line 174: adjusted_end_point
AdjustedEndPoint(status, start_byte, end_byte) ==
    IF status = "PARTIAL" \/ status = "HIT_TAIL" THEN NoEnd ELSE end_byte - start_byte

\* the read starts at the requested offset of the logical file
ReadOffset_logical(start_byte, range_start) == start_byte

\* line 178: the start_point handed to read_file
ReadOffset(start_byte, range_start) == start_byte - range_start

\* read_cache_file(request_info), lines 165-181, with q what os.listdir gives:
\* os.listdir raises FileNotFoundError when the directory does not exist
read_cache_file(k, status, start_byte, end_byte, q) ==
    IF ~dir_exists[k]
    THEN [result |-> "raised", file |-> NoFile, start |-> 0, end |-> NoEnd]
    ELSE IF FirstMatch(q, start_byte) = 0
    THEN [result |-> "None", file |-> NoFile, start |-> 0, end |-> NoEnd]
    ELSE LET file == q[FirstMatch(q, start_byte)]
         IN  [result |-> "stream", file |-> file,
              start |-> ReadOffset(start_byte, FileRange(file)[1]),
              end |-> AdjustedEndPoint(status, start_byte, end_byte)]

\* -------------------------------------------------------------- actions
\* the end of a call that keeps the lock locked when it leaves
Finish_keep_lock(w, result) ==
    /\ pc' = [pc EXCEPT ![w] = "done"]
    /\ ret' = [ret EXCEPT ![w] = result]
    /\ locked' = locked
    /\ cache_locks' = Reclaim(cache_locks, w, lock[w])
    /\ lock' = [lock EXCEPT ![w] = NoLock]
    /\ listing' = [listing EXCEPT ![w] = <<>>]
    /\ probe' = NoProbe
    /\ UNCHANGED <<waiters, dir_exists, req, start_point, end_point, before, calls>>

\* the end of a call that holds the lock: `async with lock` releases it on
\* return and on an escaping exception alike, and the frame's reference to
\* the instance goes with the frame
Finish(w, result) ==
    /\ pc' = [pc EXCEPT ![w] = "done"]
    /\ ret' = [ret EXCEPT ![w] = result]
    /\ locked' = [locked EXCEPT ![lock[w]] = FALSE]
    /\ cache_locks' = Reclaim(cache_locks, w, lock[w])
    /\ lock' = [lock EXCEPT ![w] = NoLock]
    /\ listing' = [listing EXCEPT ![w] = <<>>]
    /\ probe' = NoProbe
    /\ UNCHANGED <<waiters, dir_exists, req, start_point, end_point, before, calls>>

\* no call is at its return point: the caller of a finished call takes the
\* result before the event loop runs anything else
Quiet == \A w \in Writers : pc[w] # "done"

\* lines 72-89: bind the locals, derive the target range or refuse; suspends
\* at `await get_or_cache_alist_raw_url` (line 92)
Call(w, k, status, sb) ==
    /\ Quiet
    /\ pc[w] = "idle"
    /\ UNCHANGED <<range_hdr, readvars>>
    /\ calls < MaxCalls
    /\ calls' = calls + 1
    /\ req' = [req EXCEPT ![w] = [key |-> k, cache_status |-> status, start_byte |-> sb]]
    /\ UNCHANGED <<fetched, removed>>
    /\ IF Refused(status)
       THEN /\ pc' = [pc EXCEPT ![w] = "done"]
            /\ ret' = [ret EXCEPT ![w] = "None"]
            /\ start_point' = [start_point EXCEPT ![w] = sb]
            /\ UNCHANGED end_point
       ELSE /\ pc' = [pc EXCEPT ![w] = "resolve"]
            /\ ret' = [ret EXCEPT ![w] = "pending"]
            /\ start_point' = [start_point EXCEPT ![w] = TargetRange(status, sb, CacheFileSize(k), FileSize(k))[1]]
            /\ end_point' = [end_point EXCEPT ![w] = TargetRange(status, sb, CacheFileSize(k), FileSize(k))[2]]
    /\ probe' = NoProbe
    /\ UNCHANGED <<fsvars, lockvars, lock, listing, before>>

\* lines 95-104: os.makedirs, get_cache_lock, and lock.acquire up to the point
\* where it either holds the lock or suspends in the FIFO of waiters
Prepare(w) ==
    /\ Quiet
    /\ pc[w] = "resolve"
    /\ UNCHANGED <<range_hdr, readvars>>
    /\ probe' = NoProbe
    /\ LET g == get_cache_lock(KeyOf(w))
           l == g.lock
       IN  /\ dir_exists' = [dir_exists EXCEPT ![KeyOf(w)] = TRUE]
           /\ cache_locks' = g.registry
           /\ lock' = [lock EXCEPT ![w] = l]
           /\ IF LockFree(l)
              THEN /\ locked' = [locked EXCEPT ![l] = TRUE]
                   /\ pc' = [pc EXCEPT ![w] = "tag"]
                   /\ before' = [before EXCEPT ![w] = files[KeyOf(w)]]
                   /\ UNCHANGED waiters
              ELSE /\ waiters' = [waiters EXCEPT ![l] = Append(@, w)]
                   /\ pc' = [pc EXCEPT ![w] = "waiting"]
                   /\ UNCHANGED <<locked, before>>
    /\ UNCHANGED <<files, req, start_point, end_point, listing, ret, fetched, removed, calls>>

\* line 104: release woke the first waiter; it resumes and takes the lock
Wake(w) ==
    /\ Quiet
    /\ pc[w] = "waiting"
    /\ UNCHANGED <<range_hdr, readvars>>
    /\ probe' = NoProbe
    /\ waiters[lock[w]] # <<>>
    /\ Head(waiters[lock[w]]) = w
    /\ ~locked[lock[w]]
    /\ locked' = [locked EXCEPT ![lock[w]] = TRUE]
    /\ waiters' = [waiters EXCEPT ![lock[w]] = Tail(@)]
    /\ pc' = [pc EXCEPT ![w] = "tag"]
    /\ before' = [before EXCEPT ![w] = files[KeyOf(w)]]
    /\ UNCHANGED <<fsvars, cache_locks, req, start_point, end_point, lock, listing,
                   ret, fetched, removed, calls>>

\* lines 106-107: create (or truncate) the tag file
CreateTag(w) ==
    /\ Quiet
    /\ pc[w] = "tag"
    /\ UNCHANGED <<range_hdr, readvars>>
    /\ probe' = NoProbe
    /\ files' = [files EXCEPT ![KeyOf(w)] = @ \cup {TagFileName(start_point[w], end_point[w])}]
    /\ pc' = [pc EXCEPT ![w] = "list"]
    /\ UNCHANGED <<dir_exists, lockvars, req, start_point, end_point, lock, listing,
                   ret, fetched, removed, before, calls>>

\* lines 110-111: os.listdir in whatever order the file system gives; the
\* entries the filter of line 111 lets through are kept for the loop
ListDir(w) ==
    /\ Quiet
    /\ pc[w] = "list"
    /\ UNCHANGED <<range_hdr, readvars>>
    /\ probe' = NoProbe
    /\ \E q \in Listings({f \in files[KeyOf(w)] : IsCacheFile(f)}) :
           /\ listing' = [listing EXCEPT ![w] = q]
           /\ pc' = [pc EXCEPT ![w] = IF q = <<>> THEN "fetch" ELSE "scan"]
    /\ UNCHANGED <<fsvars, lockvars, req, start_point, end_point, lock,
                   ret, fetched, removed, before, calls>>

\* lines 112-120: one pass of the loop body over the next listed cache file
ScanStep(w) ==
    /\ Quiet
    /\ pc[w] = "scan"
    /\ UNCHANGED <<range_hdr, readvars>>
    /\ listing[w] # <<>>
    /\ LET file == Head(listing[w])
           rest == Tail(listing[w])
           k == KeyOf(w)
       IN  IF AlreadyCached(start_point[w], end_point[w], FileRange(file))
           THEN \* lines 115-117: remove the tag file, return False
                /\ files' = [files EXCEPT ![k] = @ \ {TagFileName(start_point[w], end_point[w])}]
                /\ Finish(w, "False")
                /\ UNCHANGED <<fetched, removed>>
           ELSE /\ IF Supersedes(start_point[w], end_point[w], FileRange(file))
                   THEN \* lines 119-120: remove the superseded file
                        /\ files' = [files EXCEPT ![k] = @ \ {file}]
                        /\ removed' = [removed EXCEPT ![w] = @ \cup {file}]
                   ELSE UNCHANGED <<files, removed>>
                /\ listing' = [listing EXCEPT ![w] = rest]
                /\ pc' = [pc EXCEPT ![w] = IF rest = <<>> THEN "fetch" ELSE "scan"]
                /\ probe' = NoProbe
                /\ UNCHANGED <<dir_exists, lockvars, req, start_point, end_point, lock,
                               ret, fetched, before, calls>>

\* upstream answers: 206, another status, or client.get raises
Responses == {"206", "other", "exception"}

\* lines 134-137: the upstream GET; a status other than 206 raises ValueError
\* into the except clause, as an exception of client.get does
Fetch(w, response) ==
    /\ Quiet
    /\ pc[w] = "fetch"
    /\ range_hdr' = [range_hdr EXCEPT ![w] = <<start_point[w], end_point[w]>>]
    /\ UNCHANGED readvars
    /\ probe' = NoProbe
    /\ fetched' = [fetched EXCEPT ![w] = TRUE]
    /\ pc' = [pc EXCEPT ![w] = IF response = "206" THEN "open" ELSE "cleanup"]
    /\ UNCHANGED <<fsvars, lockvars, req, start_point, end_point, lock, listing,
                   ret, removed, before, calls>>

\* line 140: aiofiles.open(cache_file_path, 'wb') creates the cache file
OpenCacheFile(w) ==
    /\ Quiet
    /\ pc[w] = "open"
    /\ UNCHANGED <<range_hdr, readvars>>
    /\ probe' = NoProbe
    /\ files' = [files EXCEPT ![KeyOf(w)] = @ \cup {CacheFileName(start_point[w], end_point[w])}]
    /\ pc' = [pc EXCEPT ![w] = "stream"]
    /\ UNCHANGED <<dir_exists, lockvars, req, start_point, end_point, lock, listing,
                   ret, fetched, removed, before, calls>>

\* lines 141-142: stream the body; it completes or raises midway
WriteBody(w, ok) ==
    /\ Quiet
    /\ pc[w] = "stream"
    /\ UNCHANGED <<range_hdr, readvars>>
    /\ probe' = NoProbe
    /\ pc' = [pc EXCEPT ![w] = IF ok THEN "untag" ELSE "cleanup"]
    /\ UNCHANGED <<fsvars, lockvars, req, start_point, end_point, lock, listing,
                   ret, fetched, removed, before, calls>>

\* lines 146-147: remove the tag file, return True
RemoveTag(w) ==
    /\ Quiet
    /\ pc[w] = "untag"
    /\ UNCHANGED <<range_hdr, readvars>>
    /\ files' = [files EXCEPT ![KeyOf(w)] = @ \ {TagFileName(start_point[w], end_point[w])}]
    /\ Finish(w, "True")
    /\ UNCHANGED <<fetched, removed>>

\* line 152: aiofiles.os.remove(cache_file_path) in the except clause; when the
\* cache file does not exist it raises FileNotFoundError, which leaves the call
Cleanup(w) ==
    /\ Quiet
    /\ pc[w] = "cleanup"
    /\ UNCHANGED <<range_hdr, readvars>>
    /\ IF CacheFileName(start_point[w], end_point[w]) \in files[KeyOf(w)]
       THEN /\ files' = [files EXCEPT ![KeyOf(w)] = @ \ {CacheFileName(start_point[w], end_point[w])}]
            /\ pc' = [pc EXCEPT ![w] = "cleanup_tag"]
            /\ probe' = NoProbe
            /\ UNCHANGED <<dir_exists, lockvars, req, start_point, end_point, lock, listing,
                           ret, fetched, removed, before, calls>>
       ELSE /\ Finish(w, "raised")
            /\ UNCHANGED <<files, fetched, removed>>

\* lines 153-154: remove the tag file, return False
CleanupTag(w) ==
    /\ Quiet
    /\ pc[w] = "cleanup_tag"
    /\ UNCHANGED <<range_hdr, readvars>>
    /\ files' = [files EXCEPT ![KeyOf(w)] = @ \ {TagFileName(start_point[w], end_point[w])}]
    /\ Finish(w, "False")
    /\ UNCHANGED <<fetched, removed>>

\* the caller takes the result of the finished call; the frame of the call and
\* its locals are gone
Return(w) ==
    /\ pc[w] = "done"
    /\ range_hdr' = [range_hdr EXCEPT ![w] = <<>>]
    /\ UNCHANGED readvars
    /\ pc' = [pc EXCEPT ![w] = "idle"]
    /\ req' = [req EXCEPT ![w] = NoReq]
    /\ start_point' = [start_point EXCEPT ![w] = 0]
    /\ end_point' = [end_point EXCEPT ![w] = 0]
    /\ ret' = [ret EXCEPT ![w] = "pending"]
    /\ fetched' = [fetched EXCEPT ![w] = FALSE]
    /\ removed' = [removed EXCEPT ![w] = {}]
    /\ before' = [before EXCEPT ![w] = {}]
    /\ probe' = NoProbe
    /\ UNCHANGED <<fsvars, lockvars, lock, listing, calls>>

\* a caller probes get_cache_status(request_info) for key k at start_byte b
GetCacheStatus(k, b) ==
    /\ UNCHANGED <<range_hdr, readvars>>
    /\ probe' = [key |-> k, start_byte |-> b, result |-> get_cache_status(k, b)]
    /\ UNCHANGED <<fsvars, lockvars, pc, req, start_point, end_point, lock, listing,
                   ret, fetched, removed, before, calls>>

\* a caller calls read_cache_file(request_info) and gets None, an exception or
\* the generator object of read_file, which has not run yet; q is os.listdir
\* as far as the filter of line 170 lets it through
ReadCacheFile(k, status, start_byte, end_byte) ==
    /\ rd = NoRead
    /\ \E q \in Listings(IF dir_exists[k] THEN {f \in files[k] : IsCacheFile(f)} ELSE {}) :
           LET r == read_cache_file(k, status, start_byte, end_byte, q)
           IN  /\ rd' = [key |-> k, cache_status |-> status, start_byte |-> start_byte,
                         end_byte |-> end_byte, result |-> r.result, file |-> r.file,
                         start |-> r.start, end |-> r.end]
               /\ gen' = IF r.result = "stream"
                         THEN [state |-> "created", key |-> k, file |-> r.file, found |-> FALSE,
                               n |-> 0, start |-> r.start, end |-> r.end, chunk |-> DefaultChunk,
                               chunk0 |-> DefaultChunk, pos |-> 0, out |-> <<>>]
                         ELSE NoGen
    /\ UNCHANGED <<fsvars, lockvars, pc, req, start_point, end_point, lock, listing,
                   ret, fetched, removed, before, probe, calls, range_hdr>>

\* lines 42-43: the consumer asks for the first chunk; aiofiles.open finds the
\* file with n bytes, f.seek(start_point)
OpenFile(n) ==
    /\ gen.state = "created"
    /\ gen' = [gen EXCEPT !.state = "loop", !.found = TRUE, !.n = n, !.pos = gen.start]
    /\ UNCHANGED <<fsvars, lockvars, pc, req, start_point, end_point, lock, listing,
                   ret, fetched, removed, before, probe, calls, range_hdr, rd>>

\* lines 42, 56-57: the file is gone; FileNotFoundError is logged and the
\* generator ends without a chunk
OpenMissing ==
    /\ gen.state = "created"
    /\ gen.file \notin files[gen.key]
    /\ gen' = [gen EXCEPT !.state = "done"]
    /\ UNCHANGED <<fsvars, lockvars, pc, req, start_point, end_point, lock, listing,
                   ret, fetched, removed, before, probe, calls, range_hdr, rd>>

\* lines 44-55: one pass of the loop of read_file, up to the yield or a break
ReadChunk ==
    /\ gen.state = "loop"
    /\ LET bounded == gen.end # NoEnd
           remaining == Remaining(gen.end, gen.pos)
           chunk_size == IF bounded THEN Min(gen.chunk, remaining) ELSE gen.chunk
           data == ReadAt(gen.pos, chunk_size, gen.n)
       IN  IF bounded /\ remaining <= 0
           THEN gen' = [gen EXCEPT !.state = "done"]
           ELSE IF data = <<>>
           THEN gen' = [gen EXCEPT !.state = "done", !.chunk = chunk_size]
           ELSE gen' = [gen EXCEPT !.chunk = chunk_size, !.pos = gen.pos + Len(data),
                                   !.out = Append(gen.out, data)]
    /\ UNCHANGED <<fsvars, lockvars, pc, req, start_point, end_point, lock, listing,
                   ret, fetched, removed, before, probe, calls, range_hdr, rd>>

\* the caller of read_cache_file is through with what it got: None, the
\* exception, or the generator it has iterated to its end
Drop ==
    /\ rd # NoRead
    /\ gen.state \in {"none", "done"}
    /\ rd' = NoRead
    /\ gen' = NoGen
    /\ UNCHANGED <<fsvars, lockvars, pc, req, start_point, end_point, lock, listing,
                   ret, fetched, removed, before, probe, calls, range_hdr>>

Next ==
    \/ \E w \in Writers, k \in Keys, status \in CacheStatus :
           \E sb \in 0..(FileSize(k) - 1) : Call(w, k, status, sb)
    \/ \E w \in Writers : Return(w)
    \/ \E w \in Writers : Prepare(w)
    \/ \E w \in Writers : Wake(w)
    \/ \E w \in Writers : CreateTag(w)
    \/ \E w \in Writers : ListDir(w)
    \/ \E w \in Writers : ScanStep(w)
    \/ \E w \in Writers, response \in Responses : Fetch(w, response)
    \/ \E w \in Writers : OpenCacheFile(w)
    \/ \E w \in Writers, ok \in BOOLEAN : WriteBody(w, ok)
    \/ \E w \in Writers : RemoveTag(w)
    \/ \E w \in Writers : Cleanup(w)
    \/ \E w \in Writers : CleanupTag(w)
    \/ \E k \in Keys : \E b \in 0..(FileSize(k) - 1) : GetCacheStatus(k, b)

Spec == Init /\ [][Next]_vars

\* the statuses under which every call for key k has the same target range:
\* HIT and PARTIAL give the head range; on the one-byte file of k2 the tail
\* range from start_byte 0 is the head range too
SameTargetStatus(k) == IF k = "k1" THEN CacheStatus \ {"HIT_TAIL"} ELSE CacheStatus

\* the callers of write_cache_file alone, all calls for one directory having
\* the same target range
NextSame ==
    \/ \E w \in Writers, k \in Keys :
           \E status \in SameTargetStatus(k), sb \in 0..(FileSize(k) - 1) : Call(w, k, status, sb)
    \/ \E w \in Writers : Return(w)
    \/ \E w \in Writers : Prepare(w)
    \/ \E w \in Writers : Wake(w)
    \/ \E w \in Writers : CreateTag(w)
    \/ \E w \in Writers : ListDir(w)
    \/ \E w \in Writers : ScanStep(w)
    \/ \E w \in Writers, response \in Responses : Fetch(w, response)
    \/ \E w \in Writers : OpenCacheFile(w)
    \/ \E w \in Writers, ok \in BOOLEAN : WriteBody(w, ok)
    \/ \E w \in Writers : RemoveTag(w)
    \/ \E w \in Writers : Cleanup(w)
    \/ \E w \in Writers : CleanupTag(w)

SpecSame == Init /\ [][NextSame]_vars

\* the callers of write_cache_file alone, any request
NextWrite ==
    \/ \E w \in Writers, k \in Keys, status \in CacheStatus :
           \E sb \in 0..(FileSize(k) - 1) : Call(w, k, status, sb)
    \/ \E w \in Writers : Return(w)
    \/ \E w \in Writers : Prepare(w)
    \/ \E w \in Writers : Wake(w)
    \/ \E w \in Writers : CreateTag(w)
    \/ \E w \in Writers : ListDir(w)
    \/ \E w \in Writers : ScanStep(w)
    \/ \E w \in Writers, response \in Responses : Fetch(w, response)
    \/ \E w \in Writers : OpenCacheFile(w)
    \/ \E w \in Writers, ok \in BOOLEAN : WriteBody(w, ok)
    \/ \E w \in Writers : RemoveTag(w)
    \/ \E w \in Writers : Cleanup(w)
    \/ \E w \in Writers : CleanupTag(w)

\* the event loop runs every coroutine that is ready (asyncio's ready queue is
\* FIFO), every file operation returns, the upstream answers or fails every
\* request and every body stream ends or breaks
Fairness ==
    \A w \in Writers :
        /\ WF_vars(Return(w))
        /\ WF_vars(Prepare(w))
        /\ WF_vars(Wake(w))
        /\ WF_vars(CreateTag(w))
        /\ WF_vars(ListDir(w))
        /\ WF_vars(ScanStep(w))
        /\ WF_vars(\E response \in Responses : Fetch(w, response))
        /\ WF_vars(OpenCacheFile(w))
        /\ WF_vars(\E ok \in BOOLEAN : WriteBody(w, ok))
        /\ WF_vars(RemoveTag(w))
        /\ WF_vars(Cleanup(w))
        /\ WF_vars(CleanupTag(w))

LiveSpec == Init /\ [][NextWrite]_vars /\ Fairness

\* the one caller of write_cache_file that runs beside the reader
ReadWriters == {w \in Writers : \A w2 \in Writers : w <= w2}

\* a reader beside one caller of write_cache_file
NextRead ==
    \/ \E w \in ReadWriters, k \in Keys, status \in CacheStatus :
           \E sb \in 0..(FileSize(k) - 1) : calls < MaxReadCalls /\ Call(w, k, status, sb)
    \/ \E w \in ReadWriters : Return(w)
    \/ \E w \in ReadWriters : Prepare(w)
    \/ \E w \in ReadWriters : CreateTag(w)
    \/ \E w \in ReadWriters : ListDir(w)
    \/ \E w \in ReadWriters : ScanStep(w)
    \/ \E w \in ReadWriters, response \in Responses : Fetch(w, response)
    \/ \E w \in ReadWriters : OpenCacheFile(w)
    \/ \E w \in ReadWriters, ok \in BOOLEAN : WriteBody(w, ok)
    \/ \E w \in ReadWriters : RemoveTag(w)
    \/ \E w \in ReadWriters : Cleanup(w)
    \/ \E w \in ReadWriters : CleanupTag(w)
    \/ \E k \in Keys, status \in CacheStatus :
           \E sb \in 0..(FileSize(k) - 1) : \E eb \in sb..(FileSize(k) - 1) :
               ReadCacheFile(k, status, sb, eb)
    \/ \E n \in Lengths(gen.key, gen.file) : OpenFile(n)
    \/ OpenMissing
    \/ ReadChunk
    \/ Drop

SpecRead == Init /\ [][NextRead]_vars

\* read_file called on its own: any start_point, end_point and chunk_size
InitFile ==
    /\ dir_exists = [k \in Keys |-> FALSE]
    /\ files = [k \in Keys |-> {}]
    /\ cache_locks = [k \in Keys |-> NoLock]
    /\ locked = [l \in LockIds |-> FALSE]
    /\ waiters = [l \in LockIds |-> <<>>]
    /\ pc = [w \in Writers |-> "idle"]
    /\ req = [w \in Writers |-> NoReq]
    /\ start_point = [w \in Writers |-> 0]
    /\ end_point = [w \in Writers |-> 0]
    /\ lock = [w \in Writers |-> NoLock]
    /\ listing = [w \in Writers |-> <<>>]
    /\ ret = [w \in Writers |-> "pending"]
    /\ fetched = [w \in Writers |-> FALSE]
    /\ removed = [w \in Writers |-> {}]
    /\ before = [w \in Writers |-> {}]
    /\ probe = NoProbe
    /\ calls = 0
    /\ range_hdr = [w \in Writers |-> <<>>]
    /\ rd = NoRead
    /\ \E s \in 0..(MaxSize + 1), e \in {NoEnd} \cup 0..(MaxSize + 1), c \in 1..MaxSize :
           gen = [NoGen EXCEPT !.state = "created", !.start = s, !.end = e,
                               !.chunk = c, !.chunk0 = c]

\* the consumer of the generator: the file has any length up to MaxSize
NextFile ==
    \/ \E n \in 0..MaxSize : OpenFile(n)
    \/ ReadChunk

\* the consumer iterates the generator to its end
SpecFile == InitFile /\ [][NextFile]_vars /\ WF_vars(NextFile)


\* ============================================================ properties
\* the cache files (not tag files) in the directory of key k
CacheFilesOf(k) == {f \in files[k] : ~f.tag}

\* no write_cache_file call is between taking the lock and finishing
NoWriteInProgress == \A w \in Writers : pc[w] \notin CriticalSection

\* caller w stands at the return point of a call that had a target range
Completed(w) == pc[w] = "done" /\ ret[w] # "None"

\* C1 (as claimed): whenever no write is in progress, no two cache files of a
\* directory have ranges that share an offset.
C1_NoOverlap ==
    NoWriteInProgress =>
        \A k \in Keys : \A f, g \in CacheFilesOf(k) :
            (f # g) => (f.end < g.start \/ g.end < f.start)

\* C2 (as claimed): when a write attempt has completed, however it ended, the
\* tag file of its target range is not in the directory.
C2_NoTagAfterAttempt ==
    \A w \in Writers :
        Completed(w) => TagFileName(start_point[w], end_point[w]) \notin files[KeyOf(w)]

\* C3 (as claimed): at the return point of a write for [start, end], start <= end,
\* that returned True, get_cache_status is true for every start_byte in
\* [start, end].
C3_ProbeAfterWrite ==
    \A w \in Writers :
        (pc[w] = "done" /\ ret[w] = "True" /\ start_point[w] <= end_point[w]) =>
            \A b \in start_point[w]..end_point[w] : get_cache_status(KeyOf(w), b)

\* C4 (as claimed): a call that took the lock while an existing cache file
\* contained its target range returns False, fetches nothing and leaves in the
\* directory exactly the entries it found.
C4_ContainedWriteIsNoOp ==
    \A w \in Writers :
        (Completed(w) /\ \E f \in before[w] :
             ~f.tag /\ f.start <= start_point[w] /\ end_point[w] <= f.end) =>
            (ret[w] = "False" /\ ~fetched[w] /\ files[KeyOf(w)] = before[w])

\* C5: at the return point of a write for [start, end] that returned True, the
\* directory holds cache_file_{start}_{end} and no other cache file whose range
\* lies inside [start, end].
C5_Supersession ==
    \A w \in Writers :
        (pc[w] = "done" /\ ret[w] = "True") =>
            /\ CacheFileName(start_point[w], end_point[w]) \in files[KeyOf(w)]
            /\ \A f \in CacheFilesOf(KeyOf(w)) :
                   (start_point[w] <= f.start /\ f.end <= end_point[w]) =>
                       f = CacheFileName(start_point[w], end_point[w])

\* a successful write that deleted two superseded cache files
C5_Witness ==
    \E w \in Writers :
        pc[w] = "done" /\ ret[w] = "True" /\ Cardinality(removed[w]) >= 2

\* C6: get_cache_status is false for every start_byte whenever the directory
\* holds a tag file, whether or not a cache file covers start_byte; and a probe
\* just made in such a state has answered false.
C6_TagBlocksProbe ==
    /\ \A k \in Keys : \A b \in 0..(FileSize(k) - 1) :
           (\E f \in files[k] : f.tag) => ~get_cache_status(k, b)
    /\ (probe # NoProbe /\ \E f \in files[probe.key] : f.tag) => ~probe.result

\* a probe answered false while a tag file and a completely written cache file
\* covering the probed offset were both in the directory
C6_Witness ==
    /\ probe # NoProbe
    /\ ~probe.result
    /\ \E f \in files[probe.key] : f.tag
    /\ \E f \in CacheFilesOf(probe.key) :
           /\ f.start <= probe.start_byte /\ probe.start_byte <= f.end
           /\ \A w \in Writers :
                  ~(pc[w] \in CriticalSection /\ KeyOf(w) = probe.key
                    /\ f = CacheFileName(start_point[w], end_point[w]))

\* C7: two calls for the same key are never inside the critical section at
\* the same time.
C7_MutualExclusion ==
    \A w1, w2 \in Writers :
        (w1 # w2 /\ pc[w1] \in CriticalSection /\ pc[w2] \in CriticalSection) =>
            KeyOf(w1) # KeyOf(w2)

\* one call is fetching inside the critical section while another call for
\* the same key waits for the lock
C7_Witness ==
    \E w1, w2 \in Writers :
        pc[w1] = "fetch" /\ pc[w2] = "waiting" /\ KeyOf(w1) = KeyOf(w2)

\* C8 (as claimed): every call ends by returning to its caller; no exception
\* leaves write_cache_file.
C8_NoExceptionEscapes ==
    \A w \in Writers : (pc[w] = "done" /\ fetched[w]) => ret[w] \in {"True", "False"}

\* C9: a call whose cache_status is not write-eligible ends at once with a
\* falsy result, and the step changes no directory, no file, no lock and
\* issues no upstream request.
C9_RefusedCallChangesNothing ==
    [][\A w \in Writers :
          (pc[w] = "idle" /\ pc'[w] # "idle"
           /\ req'[w].cache_status \notin {"HIT", "PARTIAL", "HIT_TAIL"}) =>
              /\ pc'[w] = "done"
              /\ ret'[w] = "None"
              /\ ~fetched'[w]
              /\ UNCHANGED <<dir_exists, files, cache_locks, locked, waiters, lock>>]_vars

\* a refused call at its return point, with files in a cache directory and
\* another call holding a lock
C9_Witness ==
    \E w \in Writers :
        /\ pc[w] = "done" /\ ret[w] = "None"
        /\ \E k \in Keys : CacheFilesOf(k) # {}
        /\ \E l \in LockIds : locked[l]

\* C10: callers that reference a lock for the same key reference the same
\* instance, that instance is the registry's entry for the key, and the
\* registry has an entry for a key only while some caller references its lock.
C10_OneLockPerKey ==
    /\ \A w1, w2 \in Writers :
           (lock[w1] # NoLock /\ lock[w2] # NoLock /\ KeyOf(w1) = KeyOf(w2)) =>
               lock[w1] = lock[w2]
    /\ \A w \in Writers : (lock[w] # NoLock) => cache_locks[KeyOf(w)] = lock[w]
    /\ \A k \in Keys :
           (cache_locks[k] # NoLock) =>
               \E w \in Writers : lock[w] = cache_locks[k] /\ KeyOf(w) = k

\* two callers reference the one lock instance of a key, and a lock of the
\* other key has been reclaimed
C10_Witness ==
    /\ \E w1, w2 \in Writers :
           w1 # w2 /\ lock[w1] # NoLock /\ lock[w1] = lock[w2]
    /\ \E k \in Keys : dir_exists[k] /\ cache_locks[k] = NoLock

\* the offsets of the logical file of key k that the cache files in S cover
Covered(S) == {b \in 0..(MaxSize - 1) : \E f \in S : ~f.tag /\ f.start <= b /\ b <= f.end}

\* C14 (as claimed): when a write attempt has returned, every offset that a
\* cache file of the directory covered when the attempt took the lock is still
\* covered by a cache file of the directory.
C14_CoverageKept ==
    \A w \in Writers :
        (pc[w] = "done" /\ ret[w] \in {"True", "False"}) =>
            Covered(before[w]) \subseteq Covered(files[KeyOf(w)])

\* C15: the target range of a write-eligible call is [0, cache_file_size - 1]
\* for HIT and PARTIAL whatever start_byte is, and [start_byte, file_size - 1]
\* for HIT_TAIL; the tag file the call created, the cache file it writes and
\* the Range header of its upstream GET all carry that pair.
C15_OneTargetRange ==
    \A w \in Writers :
        (pc[w] # "idle" /\ req[w].cache_status \in {"HIT", "PARTIAL", "HIT_TAIL"}) =>
            LET k == req[w].key
                s == IF req[w].cache_status = "HIT_TAIL" THEN req[w].start_byte ELSE 0
                e == IF req[w].cache_status = "HIT_TAIL" THEN FileSize(k) - 1
                     ELSE CacheFileSize(k) - 1
            IN  /\ start_point[w] = s /\ end_point[w] = e
                /\ (pc[w] \in CriticalSection \ {"tag"}) =>
                       [start |-> s, end |-> e, tag |-> TRUE] \in files[k]
                /\ (pc[w] \in {"stream", "untag"}) =>
                       [start |-> s, end |-> e, tag |-> FALSE] \in files[k]
                /\ fetched[w] => range_hdr[w] = <<s, e>>
                /\ (range_hdr[w] # <<>>) => fetched[w]

\* a HIT call with start_byte > 0 has streamed the body of its upstream GET
\* for bytes=0-(cache_file_size - 1) into the cache file
C15_Witness ==
    \E w \in Writers :
        /\ pc[w] = "untag"
        /\ req[w].cache_status = "HIT"
        /\ req[w].start_byte > 0
        /\ range_hdr[w] = <<0, CacheFileSize(req[w].key) - 1>>

\* w2 stands before w in the FIFO of waiters of lock instance l
Ahead(w2, w, l) ==
    \E i, j \in 1..Len(waiters[l]) : i < j /\ waiters[l][i] = w2 /\ waiters[l][j] = w

\* C19: a call for one key is never blocked by a call for another key: callers
\* of different keys never reference the same lock instance, and a call waits
\* for its lock only while a call for the same key is inside the critical
\* section or ahead of it in the queue; otherwise the lock is free for it.
C19_OtherKeysDoNotBlock ==
    /\ \A w1, w2 \in Writers :
           (lock[w1] # NoLock /\ lock[w1] = lock[w2]) => KeyOf(w1) = KeyOf(w2)
    /\ \A w \in Writers :
           (pc[w] = "waiting") =>
               \/ \E w2 \in Writers \ {w} :
                      /\ KeyOf(w2) = KeyOf(w)
                      /\ pc[w2] \in CriticalSection \/ Ahead(w2, w, lock[w])
               \/ ~locked[lock[w]] /\ Head(waiters[lock[w]]) = w
    /\ \A w \in Writers :
           (pc[w] \in CriticalSection) =>
               /\ locked[lock[w]]
               /\ \A w2 \in Writers \ {w} :
                      (pc[w2] \in CriticalSection /\ lock[w2] = lock[w]) => KeyOf(w2) = KeyOf(w)

\* a call for k2 is at the end of its critical section while a call for k1,
\* which took its lock first, still stands in its upstream fetch
C19_Witness ==
    \E w1, w2 \in Writers :
        /\ pc[w1] = "fetch" /\ KeyOf(w1) = "k1"
        /\ pc[w2] = "untag" /\ KeyOf(w2) = "k2"
        /\ lock[w1] < lock[w2]

\* C18: with every call for a directory having the same target range, a call
\* that took the lock while the cache file of its target was in the directory
\* returns False and issues no upstream GET; a call returns True only when
\* that file was not there; and a cache file that no call is writing (every
\* call inside the critical section found it when it took the lock) is never
\* removed.
C18_FetchedOnce ==
    /\ [](\A w \in Writers :
             (Completed(w) /\ CacheFileName(start_point[w], end_point[w]) \in before[w]) =>
                 (ret[w] = "False" /\ ~fetched[w] /\ range_hdr[w] = <<>>))
    /\ [](\A w \in Writers :
             (pc[w] = "done" /\ ret[w] = "True") =>
                 CacheFileName(start_point[w], end_point[w]) \notin before[w])
    /\ [][\A k \in Keys : \A f \in CacheFilesOf(k) :
             (\A w \in Writers : (pc[w] \in CriticalSection /\ KeyOf(w) = k) => f \in before[w]) =>
                 f \in files'[k]]_vars

\* a call has aborted on the cache file an earlier call for the same target
\* wrote, while another call for that directory waits for the lock
C18_Witness ==
    \E w \in Writers :
        /\ pc[w] = "done" /\ ret[w] = "False" /\ ~fetched[w]
        /\ before[w] = {CacheFileName(start_point[w], end_point[w])}
        /\ KeyOf(w) = "k1"
        /\ \E w2 \in Writers \ {w} : pc[w2] = "waiting" /\ KeyOf(w2) = "k1"

\* C20: under fair scheduling and an upstream that answers or fails every
\* request, every call that holds the directory lock or waits for it reaches
\* its end with the lock released.
C20_NoWriterWaitsForever ==
    \A w \in Writers :
        (pc[w] \in CriticalSection \cup {"waiting"}) ~> (pc[w] = "done" /\ lock[w] = NoLock)

\* a call waits for the lock of a call that is in the except clause after a
\* failed upstream fetch
C20_Witness ==
    \E w1, w2 \in Writers :
        /\ pc[w1] = "cleanup" /\ pc[w2] = "waiting"
        /\ KeyOf(w1) = KeyOf(w2)
        /\ waiters[lock[w1]] = <<w2>>

\* the chunks of a generator in one piece
RECURSIVE Flatten(_)
Flatten(chunks) == IF chunks = <<>> THEN <<>> ELSE Head(chunks) \o Flatten(Tail(chunks))

\* the on-disk offsets from lo through hi, in order
Offsets(lo, hi) == IF hi < lo THEN <<>> ELSE [i \in 1..(hi - lo + 1) |-> lo + i - 1]

\* C11: when read_cache_file returns a stream, it is over a cache file whose
\* range [range_start, range_end] contains start_byte, and the stream starts
\* reading at on-disk offset start_byte - range_start of that file, whatever
\* the cache status: read_file is handed that offset, seeks to it, and the
\* first byte it yields is the byte at that offset.
C11_ReadOffset ==
    (rd.result = "stream") =>
        /\ ~rd.file.tag
        /\ rd.file.start <= rd.start_byte /\ rd.start_byte <= rd.file.end
        /\ rd.start = rd.start_byte - rd.file.start
        /\ gen.file = rd.file /\ gen.start = rd.start_byte - rd.file.start
        /\ gen.found => gen.pos >= rd.start_byte - rd.file.start
        /\ (gen.state = "loop" /\ gen.out = <<>>) => gen.pos = rd.start_byte - rd.file.start
        /\ (gen.out # <<>>) => gen.out[1][1] = rd.start_byte - rd.file.start

\* a stream over a tail cache file has yielded the byte of start_byte, which
\* lies behind the start of the file's range
C11_Witness ==
    /\ rd.result = "stream"
    /\ rd.file.start > 0
    /\ rd.start_byte > rd.file.start
    /\ gen.out # <<>>

\* C12 (as claimed): a stream for a request that is neither PARTIAL nor
\* HIT_TAIL, with [start_byte, end_byte] inside the range of a cache file that
\* was completely written when it was opened, no write being in progress, has
\* delivered at its end exactly the bytes of the logical offsets start_byte
\* through end_byte.
C12_ExactBytes ==
    (/\ rd.result = "stream"
     /\ rd.cache_status \notin {"PARTIAL", "HIT_TAIL"}
     /\ rd.end_byte <= rd.file.end
     /\ gen.state = "done" /\ gen.found
     /\ gen.n = rd.file.end - rd.file.start + 1
     /\ NoWriteInProgress) =>
        /\ Len(Flatten(gen.out)) = rd.end_byte - rd.start_byte + 1
        /\ Flatten(gen.out) = Offsets(rd.start_byte - rd.file.start, rd.end_byte - rd.file.start)

\* C13 (as claimed): in a state in which the directory holds a tag file,
\* read_cache_file returns no stream, whatever the request and the order of
\* the listing.
C13_TagBlocksReader ==
    \A k \in Keys :
        (dir_exists[k] /\ \E f \in files[k] : f.tag) =>
            \A status \in CacheStatus, sb \in 0..(FileSize(k) - 1) :
                \A q \in Listings(CacheFilesOf(k)) :
                    read_cache_file(k, status, sb, sb, q).result # "stream"

\* C16: read_file ends; at its end the chunks it yielded, put together, are
\* the bytes of the file from start_point through min(end_point, n - 1), or
\* through n - 1 when no end_point is given, and nothing when start_point lies
\* behind that; every chunk is non-empty and at most chunk_size long.
C16_ReadFile ==
    /\ <>(gen.state = "done")
    /\ []((gen.state = "done") =>
             Flatten(gen.out) =
                 Offsets(gen.start, IF gen.end = NoEnd \/ gen.n - 1 < gen.end
                                    THEN gen.n - 1 ELSE gen.end))
    /\ [](\A i \in 1..Len(gen.out) :
             gen.out[i] # <<>> /\ Len(gen.out[i]) <= gen.chunk0)

\* read_file has ended after two chunks, at an end_point before the end of
\* the file
C16_Witness ==
    /\ gen.state = "done"
    /\ Len(gen.out) >= 2
    /\ gen.end # NoEnd
    /\ gen.end < gen.n - 1

\* C17 (as claimed): in every state and for every request, read_cache_file
\* returns None when no cache file of the directory has a range containing
\* start_byte, and a stream over a file whose range contains start_byte when
\* there is such a file; it never raises.
C17_AbsentOrStream ==
    \A k \in Keys, status \in CacheStatus :
        \A sb \in 0..(FileSize(k) - 1), q \in Listings(IF dir_exists[k] THEN CacheFilesOf(k) ELSE {}) :
            LET r == read_cache_file(k, status, sb, sb, q)
            IN  IF \E f \in CacheFilesOf(k) : f.start <= sb /\ sb <= f.end
                THEN /\ r.result = "stream"
                     /\ r.file \in CacheFilesOf(k)
                     /\ r.file.start <= sb /\ sb <= r.file.end
                ELSE r.result = "None"
====
